---- MODULE Spec2Model ----
(***************************************************************************)
(* Native bridging glue of HealthTrackerApp (android/app/src/main/jni):    *)
(* MainComponentsRegistry (constructor, sharedProviderRegistry,            *)
(* initHybrid, registerNatives) and MainApplicationModuleProvider,         *)
(* together with the two pieces of the host they talk to: the process-wide *)
(* component descriptor provider registry of the base framework and the    *)
(* host's table of registered native methods.                              *)
(***************************************************************************)
EXTENDS FiniteSets, Integers, Sequences, TLC

(* ------------------------------ bounds --------------------------------- *)

\* Calls (of the fragment, of managed code, of the framework) in one run.
MaxCalls == 5

(* ------------------------- values of the model ------------------------- *)

\* Component descriptor providers the base framework may hold.
Providers == {"View", "Text"}

\* Names a module lookup may ask for; invokers it may pass.
ModuleNames == {"", "SampleTurboModule"}
Invokers == {"nullptr", "jsInvoker"}

\* MainComponentsRegistry.h:14-15
kJavaDescriptor == "Lcom/healthtracker/MainComponentsRegistry;"

\* fbjni derives the managed class name from the descriptor "L<name>;".
base_name(descriptor) == SubSeq(descriptor, 2, Len(descriptor) - 1)

JavaClass == base_name(kJavaDescriptor)

\* Managed classes and native method names managed code may call.
ManagedClasses == {JavaClass, "com/healthtracker/MainApplication"}
MethodNames == {"initHybrid", "getSharedProviderRegistry"}

\* Values of the jclass argument of initHybrid.
ClassRefs == {"null", JavaClass}

\* The one registry object CoreComponentsRegistry::sharedProviderRegistry()
\* hands out (MainComponentsRegistry.cpp:10).
CoreComponentsRegistry_sharedProviderRegistry == "CoreComponentsRegistry"

VARIABLES
    regs,         \* registry objects: reference -> set of providers held
    objects,      \* MainComponentsRegistry C++ objects constructed so far
    hybrids,      \* objects wrapped in hybrid data by makeCxxInstance()
    natives,      \* native methods registered with the host
    op,           \* the last operation called
    arg,          \* its arguments
    ret,          \* its return value
    exc,          \* "none", or the error it ended with
    managed,      \* TRUE when the last call came from managed code
    sharedLog,    \* <<instance, registry returned>> of every accessor call
    nInitHybrid,  \* number of executions of initHybrid
    calls         \* number of calls so far

vars == <<regs, objects, hybrids, natives, op, arg, ret, exc, managed,
          sharedLog, nInitHybrid, calls>>

(* --------------------------- the fragment ------------------------------ *)

\* A not yet used object identity.
NewObject(objs) == Cardinality(objs) + 1

\* MainComponentsRegistry::MainComponentsRegistry() {} : the object has no
\* fields, constructing it only brings the object into existence.
MainComponentsRegistry(objs) ==
    [ret |-> NewObject(objs), objects |-> objs \cup {NewObject(objs)},
     exc |-> "none"]

\* Variant: returns a fresh registry object holding a copy of the providers.
sharedProviderRegistry_Copy(self, rs) ==
    [ret |-> "copy",
     regs |-> ("copy" :> rs[CoreComponentsRegistry_sharedProviderRegistry]) @@ rs,
     exc |-> "none"]

\* Variant: adds a custom provider to the registry before returning it.
sharedProviderRegistry_AddsCustom(self, rs) ==
    [ret |-> CoreComponentsRegistry_sharedProviderRegistry,
     regs |-> [rs EXCEPT ![CoreComponentsRegistry_sharedProviderRegistry] =
                   @ \cup {"Custom"}],
     exc |-> "none"]

\* Variant: every instance keeps a registry of its own.
sharedProviderRegistry_PerInstance(self, rs) ==
    [ret |-> "registry of instance " \o ToString(self), regs |-> rs,
     exc |-> "none"]

\* auto providerRegistry = CoreComponentsRegistry::sharedProviderRegistry();
\* return providerRegistry;
sharedProviderRegistry(self, rs) ==
    [ret |-> CoreComponentsRegistry_sharedProviderRegistry, regs |-> rs,
     exc |-> "none"]

\* makeCxxInstance(): construct the C++ object, wrap it in hybrid data.
makeCxxInstance(objs, hybs) ==
    LET made == MainComponentsRegistry(objs)
    IN  [ret |-> made.ret, objects |-> made.objects,
         hybrids |-> hybs \cup {made.ret}, exc |-> made.exc]

\* Variant: fails on a null class reference.
initHybrid_ChecksClass(cls, objs, hybs) ==
    IF cls = "null"
    THEN [ret |-> 0, objects |-> objs, hybrids |-> hybs,
          exc |-> "NullPointerException"]
    ELSE makeCxxInstance(objs, hybs)

\* Variant: hands out the instance made by the first call again.
initHybrid_Singleton(cls, objs, hybs) ==
    IF hybs = {}
    THEN makeCxxInstance(objs, hybs)
    ELSE [ret |-> CHOOSE h \in hybs : TRUE, objects |-> objs, hybrids |-> hybs,
          exc |-> "none"]

\* auto instance = makeCxxInstance(); return instance;  (jclass is unnamed)
initHybrid(cls, objs, hybs) == makeCxxInstance(objs, hybs)

makeNativeMethod(name, fn) == [name |-> name, fn |-> fn]

\* registerHybrid(methods): bind the methods on the class of kJavaDescriptor;
\* binding a name again replaces its earlier binding.
registerHybrid(methods, nat) ==
    {n \in nat : ~(\E m \in methods : n.cls = JavaClass /\ n.name = m.name)}
    \cup {[cls |-> JavaClass, name |-> m.name, fn |-> m.fn] : m \in methods}

\* Variant: registers an empty method list.
registerNatives_Nothing(nat) ==
    [natives |-> registerHybrid({}, nat), exc |-> "none"]

registerNatives(nat) ==
    [natives |-> registerHybrid(
         {makeNativeMethod("initHybrid", "MainComponentsRegistry::initHybrid")},
         nat),
     exc |-> "none"]

\* Variant: answers a known module name with a module.
MainApplicationModuleProvider_Known(name, jsInvoker) ==
    IF name = "SampleTurboModule" THEN "SampleTurboModule@" \o jsInvoker
    ELSE "nullptr"

\* Declared in MainApplicationModuleProvider.h; the fragment's stub yields
\* no module.
MainApplicationModuleProvider(name, jsInvoker) == "nullptr"

(* ------------------------------ state ---------------------------------- *)

Init ==
    /\ \E held \in SUBSET Providers :
           regs = (CoreComponentsRegistry_sharedProviderRegistry :> held)
    /\ objects = {}
    /\ hybrids = {}
    /\ natives = {}
    /\ op = "none"
    /\ arg = <<>>
    /\ ret = "void"
    /\ exc = "none"
    /\ managed = FALSE
    /\ sharedLog = <<>>
    /\ nInitHybrid = 0
    /\ calls = 0

Called(o, a, r, e, m) ==
    /\ calls < MaxCalls
    /\ calls' = calls + 1
    /\ op' = o
    /\ arg' = a
    /\ ret' = r
    /\ exc' = e
    /\ managed' = m

\* new MainComponentsRegistry()
Construct ==
    LET r == MainComponentsRegistry(objects)
    IN  /\ Called("MainComponentsRegistry", <<>>, r.ret, r.exc, FALSE)
        /\ objects' = r.objects
        /\ UNCHANGED <<regs, hybrids, natives, sharedLog, nInitHybrid>>

\* instance->sharedProviderRegistry()
SharedProviderRegistry(self) ==
    LET r == sharedProviderRegistry(self, regs)
    IN  /\ self \in objects
        /\ Called("sharedProviderRegistry", <<self>>, r.ret, r.exc, FALSE)
        /\ regs' = r.regs
        /\ sharedLog' = Append(sharedLog, <<self, r.ret>>)
        /\ UNCHANGED <<objects, hybrids, natives, nInitHybrid>>

InitHybridBody(cls, m) ==
    LET r == initHybrid(cls, objects, hybrids)
    IN  /\ Called("initHybrid", <<cls>>, r.ret, r.exc, m)
        /\ objects' = r.objects
        /\ hybrids' = r.hybrids
        /\ nInitHybrid' = nInitHybrid + 1
        /\ UNCHANGED <<regs, natives, sharedLog>>

\* MainComponentsRegistry::initHybrid(cls), called natively
InitHybrid(cls) == InitHybridBody(cls, FALSE)

\* MainComponentsRegistry::registerNatives()
RegisterNatives ==
    LET r == registerNatives(natives)
    IN  /\ Called("registerNatives", <<>>, "void", r.exc, FALSE)
        /\ natives' = r.natives
        /\ UNCHANGED <<regs, objects, hybrids, sharedLog, nInitHybrid>>

\* MainApplicationModuleProvider(name, jsInvoker)
ModuleProvider(name, jsInvoker) ==
    /\ Called("MainApplicationModuleProvider", <<name, jsInvoker>>,
              MainApplicationModuleProvider(name, jsInvoker), "none", FALSE)
    /\ UNCHANGED <<regs, objects, hybrids, natives, sharedLog, nInitHybrid>>

(* ------------------------------- host ---------------------------------- *)

\* The native functions the host has bound to a managed method.
Bound(cls, name, nat) == {n.fn : n \in {b \in nat : b.cls = cls /\ b.name = name}}

\* Managed code calls the native method `name` of class `cls`: the host
\* runs the function bound to it, or fails when none is bound.
ManagedCall(cls, name) ==
    IF "MainComponentsRegistry::initHybrid" \in Bound(cls, name, natives)
    THEN InitHybridBody(cls, TRUE)
    ELSE /\ Called("unbound", <<cls, name>>, "void", "UnsatisfiedLinkError", TRUE)
         /\ UNCHANGED <<regs, objects, hybrids, natives, sharedLog, nInitHybrid>>

\* The base framework adds a provider to its registry.
FrameworkAdd(p) ==
    /\ Called("ComponentDescriptorProviderRegistry::add", <<p>>, "void", "none", FALSE)
    /\ regs' = [regs EXCEPT ![CoreComponentsRegistry_sharedProviderRegistry] = @ \cup {p}]
    /\ UNCHANGED <<objects, hybrids, natives, sharedLog, nInitHybrid>>

Next ==
    \/ Construct
    \/ \E self \in objects : SharedProviderRegistry(self)
    \/ \E cls \in ClassRefs : InitHybrid(cls)
    \/ RegisterNatives
    \/ \E name \in ModuleNames, jsInvoker \in Invokers : ModuleProvider(name, jsInvoker)
    \/ \E cls \in ManagedClasses, name \in MethodNames : ManagedCall(cls, name)
    \/ \E p \in Providers : FrameworkAdd(p)

Spec == Init /\ [][Next]_vars

(* ------------------------------ claims --------------------------------- *)

\* The operations of MainComponentsRegistry.
RegistryOps ==
    {"MainComponentsRegistry", "initHybrid", "registerNatives",
     "sharedProviderRegistry"}

\* The operations of the fragment.
FragmentOps == RegistryOps \cup {"MainApplicationModuleProvider"}

\* C1: whatever the base framework's registry holds, a call of
\* sharedProviderRegistry() returns that registry object, and the providers
\* seen through the returned reference are the ones the registry held when
\* the call was made; no registry object appears or disappears.
C1_ReturnsBaseRegistry ==
    [][op' = "sharedProviderRegistry" =>
          /\ ret' = "CoreComponentsRegistry"
          /\ DOMAIN regs' = DOMAIN regs
          /\ regs'[ret'] = regs["CoreComponentsRegistry"]]_vars

C1_Witness ==
    /\ op = "sharedProviderRegistry"
    /\ ret = "CoreComponentsRegistry"
    /\ regs[ret] = Providers

\* C2: MainApplicationModuleProvider returns no module for every name and
\* every invoker, in every state the program can be in.
C2_NoModule ==
    /\ \A name \in ModuleNames, jsInvoker \in Invokers :
           MainApplicationModuleProvider(name, jsInvoker) = "nullptr"
    /\ op = "MainApplicationModuleProvider" => ret = "nullptr" /\ exc = "none"

C2_Witness ==
    /\ op = "MainApplicationModuleProvider"
    /\ arg = <<"SampleTurboModule", "jsInvoker">>
    /\ ret = "nullptr"
    /\ natives # {}
    /\ hybrids # {}

\* C3: a step that is a MainComponentsRegistry construction, initHybrid,
\* registerNatives or sharedProviderRegistry leaves every registry as it
\* was, so any sequence of them does.
C3_RegistryOnlyRead ==
    [][op' \in RegistryOps => regs' = regs]_vars

C3_Witness ==
    /\ op = "sharedProviderRegistry"
    /\ nInitHybrid > 0
    /\ natives # {}
    /\ objects # hybrids
    /\ regs["CoreComponentsRegistry"] # {}

\* The registration the claim C4 speaks of.
InitHybridMethod ==
    [cls |-> "com/healthtracker/MainComponentsRegistry", name |-> "initHybrid",
     fn |-> "MainComponentsRegistry::initHybrid"]

\* C4: registerNatives() leaves exactly one native method registered for
\* com/healthtracker/MainComponentsRegistry, named initHybrid and bound to
\* MainComponentsRegistry::initHybrid, and adds nothing else; the
\* registration stays; and once it is there a managed call of initHybrid on
\* that class runs initHybrid, which constructs a new instance.
C4_RegistersInitHybrid ==
    [][/\ op' = "registerNatives" =>
              /\ natives' = natives \cup {InitHybridMethod}
              /\ {n \in natives' : n.cls = InitHybridMethod.cls} = {InitHybridMethod}
       /\ InitHybridMethod \in natives => InitHybridMethod \in natives'
       /\ ( /\ InitHybridMethod \in natives
            /\ managed'
            /\ arg' \in {<<InitHybridMethod.cls>>, <<InitHybridMethod.cls, "initHybrid">>} )
          => /\ op' = "initHybrid"
             /\ exc' = "none"
             /\ ret' \notin objects
             /\ ret' \in objects' /\ ret' \in hybrids']_vars

C4_Witness ==
    /\ managed
    /\ op = "initHybrid"
    /\ arg = <<"com/healthtracker/MainComponentsRegistry">>
    /\ exc = "none"
    /\ natives = {InitHybridMethod}
    /\ ret \in hybrids

\* C5: every operation of the fragment can be called in every state (the
\* accessor on every existing instance), each call ends normally, and its
\* only effects are: the constructor and initHybrid bring one new object
\* into existence (initHybrid also its hybrid wrapper), registerNatives
\* changes the host's method table, nothing touches the registry.
C5_NoErrorOutcome ==
    /\ [](calls < MaxCalls =>
            /\ ENABLED Construct
            /\ ENABLED RegisterNatives
            /\ \A cls \in ClassRefs : ENABLED InitHybrid(cls)
            /\ \A self \in objects : ENABLED SharedProviderRegistry(self)
            /\ \A name \in ModuleNames, jsInvoker \in Invokers :
                   ENABLED ModuleProvider(name, jsInvoker))
    /\ [][op' \in FragmentOps =>
            /\ exc' = "none"
            /\ regs' = regs
            /\ objects \subseteq objects' /\ hybrids \subseteq hybrids'
            /\ objects' # objects =>
                   /\ op' \in {"MainComponentsRegistry", "initHybrid"}
                   /\ Cardinality(objects' \ objects) = 1
            /\ hybrids' # hybrids => op' = "initHybrid"
            /\ natives' # natives => op' = "registerNatives"]_vars

C5_Witness ==
    /\ op = "MainApplicationModuleProvider"
    /\ exc = "none"
    /\ sharedLog # <<>>
    /\ nInitHybrid > 0
    /\ natives # {}
    /\ objects # hybrids

\* C6: a call of initHybrid is possible whether or not the accessor was
\* ever called; it makes exactly one instance that did not exist before and
\* returns it; any other class reference would have given the same result;
\* and the instances made so far are as many as the calls.
C6_InitHybridMakesOneInstance ==
    /\ [](calls < MaxCalls /\ sharedLog = <<>> =>
            \A cls \in ClassRefs : ENABLED InitHybrid(cls))
    /\ [][op' = "initHybrid" =>
            /\ exc' = "none"
            /\ ret' \notin objects
            /\ objects' = objects \cup {ret'}
            /\ hybrids' = hybrids \cup {ret'}
            /\ Cardinality(hybrids') = nInitHybrid'
            /\ \A cls \in ClassRefs :
                   initHybrid(cls, objects, hybrids).ret = ret']_vars

C6_Witness ==
    /\ op = "initHybrid"
    /\ arg = <<"null">>
    /\ sharedLog = <<>>
    /\ nInitHybrid = 3
    /\ Cardinality(hybrids) = 3
    /\ ret \in hybrids

\* C7: all calls of sharedProviderRegistry() made so far, on whichever
\* instances and with whatever in between, returned the same registry.
C7_SameRegistryForAll ==
    \A i, j \in DOMAIN sharedLog : sharedLog[i][2] = sharedLog[j][2]

C7_Witness ==
    /\ Len(sharedLog) = 3
    /\ sharedLog[1][1] # sharedLog[2][1]
    /\ sharedLog[3][1] = sharedLog[1][1]
    /\ {sharedLog[1][1], sharedLog[2][1]} \subseteq hybrids

====
